---- MODULE Spec2Model ----
(***************************************************************************)
(* Lifecycle controller of the OpenAI gateway (internal/gateway/openai.go): *)
(* processServe, its two listener goroutines (runMainServer,                *)
(* runQuitServer), the /quitquitquit handler, the wait for a shutdown       *)
(* signal and the bounded drain of both http.Server values.                 *)
(*                                                                          *)
(* OS signals are modelled from the moment signal.Notify has registered     *)
(* sigChan; before that the runtime's default disposition ends the process  *)
(* outside any code of this repository.                                     *)
(***************************************************************************)
EXTENDS Integers, Sequences, FiniteSets, TLC

\* ---------------------------------------------------------------- bounds
MaxTimeout == 2
MaxQuitCalls == 2
MaxInflight == 1
MaxSignals == 2

\* ------------------------------------------------------ program constants
defaultPort == 8080
defaultQuitPort == 8081
StatusOK == 200
QuitBody == "Initiating shutdown..."
WebUIURL == "http://open-webui"

VARIABLES
    cfg,          \* Config handed to processServe
    pc,           \* position of processServe (the main goroutine)
    stopChan,     \* [made, closed] : chan struct{}
    closeOnce,    \* [done] : sync.Once
    closes,       \* number of close(stopChan) executions
    panicked,     \* a close of a closed channel happened
    fired,        \* closeOnce.Do calls, by caller
    notified,     \* signal.Notify(sigChan, ...) is registered
    sigChan,      \* OS signals buffered in sigChan (capacity 1)
    sigSent,      \* OS signals delivered to the process so far
    wake,         \* branch of the select that ended the wait
    mainTask,     \* position of the runMainServer goroutine
    quitTask,     \* position of the runQuitServer goroutine
    mainRet,      \* what mainSrv.ListenAndServe returned
    quitRet,      \* what quitSrv.ListenAndServe returned
    mainSrv,      \* [inShutdown] : public http.Server
    quitSrv,      \* [inShutdown] : control http.Server
    mainActive,   \* in-flight requests on the public listener
    quitPending,  \* control requests accepted, handler not yet run
    quitHandled,  \* control requests whose handler ran, connection not yet idle
    quitResp,     \* responses written by handleQuitSignal, in order
    quitMethod,   \* method of the control request served last
    shutdownCtx,  \* [made, deadline] : context.WithTimeout of shutdownServers
    pollCtx,      \* context the Shutdown call in progress was given
    now,          \* seconds elapsed since shutdownCtx was created
    calls,        \* contexts created and Shutdown calls made by shutdownServers
    mainDrain,    \* outcome of mainSrv.Shutdown
    quitDrain,    \* outcome of quitSrv.Shutdown
    result,       \* what processServe returned
    hreq,         \* the request a public-listener handler is serving
    upstream,     \* how the upstream answers that request's call
    hpc,          \* position of that request: idle, arrived, routed, done
    route,        \* handlers the request went through, in order
    upCalls,      \* requests sent to the upstream for it, in order
    hresp         \* response written to the client

vars == <<cfg, pc, stopChan, closeOnce, closes, panicked, fired, notified,
          sigChan, sigSent, wake, mainTask, quitTask, mainRet, quitRet,
          mainSrv, quitSrv, mainActive, quitPending, quitHandled, quitResp,
          quitMethod, shutdownCtx, pollCtx, now, calls, mainDrain, quitDrain, result,
          hreq, upstream, hpc, route, upCalls, hresp>>

chanVars == <<stopChan, closeOnce, closes, panicked>>
sigVars  == <<notified, sigChan, sigSent, wake>>
mainVars == <<mainTask, mainRet>>
quitVars == <<quitTask, quitRet>>
reqVars  == <<mainActive, quitPending, quitHandled, quitResp, quitMethod>>
drainVars == <<shutdownCtx, pollCtx, now, calls, mainDrain, quitDrain>>
hVars == <<hreq, upstream, hpc, route, upCalls, hresp>>
lifeVars == <<cfg, pc, chanVars, fired, sigVars, mainVars, quitVars, mainSrv,
              quitSrv, reqVars, drainVars, result>>

\* ------------------------------------------------------------------ state
Config(url, timeout) ==
    [Port |-> defaultPort, OpenWebUIURL |-> url,
     QuitPort |-> defaultQuitPort, ShutdownTimeoutSec |-> timeout]

NoCtx == [made |-> FALSE, deadline |-> 0]

NoRequest == [method |-> "", path |-> "", body |-> [kind |-> "none"]]
NoUpstream == [reach |-> "none"]
NoResponse == [status |-> 0, headers |-> {}, body |-> [text |-> ""]]

\* No public request is being followed.
HandlerIdle ==
    /\ hreq = NoRequest
    /\ upstream = NoUpstream
    /\ hpc = "idle"
    /\ route = <<>>
    /\ upCalls = <<>>
    /\ hresp = NoResponse

Init ==
    /\ cfg \in {Config(u, t) : u \in {"", WebUIURL}, t \in 0..MaxTimeout}
    /\ pc = "check"
    /\ stopChan = [made |-> FALSE, closed |-> FALSE]
    /\ closeOnce = [done |-> FALSE]
    /\ closes = 0
    /\ panicked = FALSE
    /\ fired = [quit |-> 0, mainErr |-> 0]
    /\ notified = FALSE
    /\ sigChan = 0
    /\ sigSent = 0
    /\ wake = "none"
    /\ mainTask = "unstarted"
    /\ quitTask = "unstarted"
    /\ mainRet = "none"
    /\ quitRet = "none"
    /\ mainSrv = [inShutdown |-> FALSE]
    /\ quitSrv = [inShutdown |-> FALSE]
    /\ mainActive = 0
    /\ quitPending = 0
    /\ quitHandled = 0
    /\ quitResp = <<>>
    /\ quitMethod = ""
    /\ shutdownCtx = NoCtx
    /\ pollCtx = NoCtx
    /\ now = 0
    /\ calls = [ctx |-> 0, main |-> 0, quit |-> 0]
    /\ mainDrain = "none"
    /\ quitDrain = "none"
    /\ result = "running"
    /\ HandlerIdle

\* ------------------------------------------------- the one-time guard
\* close(stopChan): closing a closed channel panics.
CloseStopChan ==
    /\ closes' = closes + 1
    /\ IF stopChan.closed
         THEN /\ panicked' = TRUE
              /\ UNCHANGED stopChan
         ELSE /\ stopChan' = [stopChan EXCEPT !.closed = TRUE]
              /\ UNCHANGED panicked

OnceDo_NoGuard ==
    /\ CloseStopChan
    /\ closeOnce' = [done |-> TRUE]

\* closeOnce.Do(func() { close(stopChan) })
OnceDo ==
    IF closeOnce.done
      THEN UNCHANGED chanVars
      ELSE /\ CloseStopChan
           /\ closeOnce' = [done |-> TRUE]

\* ------------------------------------------------------- http.Server
\* A listener accepts while its Serve loop runs and Shutdown has not closed it.
MainAccepting == mainTask = "serving" /\ ~mainSrv.inShutdown
QuitAccepting == quitTask = "serving" /\ ~quitSrv.inShutdown

QuitActive == quitPending + quitHandled

Expired(ctx) == now >= ctx.deadline

\* ------------------------------------------------------- processServe
ConfigCheck_Unchecked ==
    /\ pc = "check"
    /\ pc' = "setup"
    /\ UNCHANGED <<cfg, hVars, chanVars, fired, sigVars, mainVars, quitVars,
                   mainSrv, quitSrv, reqVars, drainVars, result>>

\* if cfg.OpenWebUIURL == "" { return error }
ConfigCheck ==
    /\ pc = "check"
    /\ IF cfg.OpenWebUIURL = ""
         THEN /\ pc' = "failed"
              /\ result' = "error"
         ELSE /\ pc' = "setup"
              /\ UNCHANGED result
    /\ UNCHANGED <<cfg, hVars, chanVars, fired, sigVars, mainVars, quitVars,
                   mainSrv, quitSrv, reqVars, drainVars>>

\* stopChan := make(chan struct{}); var closeOnce sync.Once; setupServers(...)
SetupServers ==
    /\ pc = "setup"
    /\ stopChan' = [made |-> TRUE, closed |-> FALSE]
    /\ closeOnce' = [done |-> FALSE]
    /\ mainSrv' = [inShutdown |-> FALSE]
    /\ quitSrv' = [inShutdown |-> FALSE]
    /\ pc' = "start"
    /\ UNCHANGED <<cfg, hVars, closes, panicked, fired, sigVars, mainVars, quitVars,
                   reqVars, drainVars, result>>

\* go runMainServer(...); go runQuitServer(...)
StartServers ==
    /\ pc = "start"
    /\ mainTask' = "spawned"
    /\ quitTask' = "spawned"
    /\ pc' = "notify"
    /\ UNCHANGED <<cfg, hVars, chanVars, fired, sigVars, mainRet, quitRet,
                   mainSrv, quitSrv, reqVars, drainVars, result>>

\* sigChan := make(chan os.Signal, 1); signal.Notify(sigChan, SIGINT, SIGTERM)
NotifySignals ==
    /\ pc = "notify"
    /\ notified' = TRUE
    /\ pc' = "select"
    /\ UNCHANGED <<cfg, hVars, chanVars, fired, sigChan, sigSent, wake, mainVars,
                   quitVars, mainSrv, quitSrv, reqVars, drainVars, result>>

\* The OS delivers SIGINT or SIGTERM; the runtime's send to sigChan does not
\* block, a signal that finds the buffer full is dropped.
OSSignal ==
    /\ notified
    /\ sigSent < MaxSignals
    /\ sigSent' = sigSent + 1
    /\ sigChan' = IF sigChan < 1 THEN sigChan + 1 ELSE sigChan
    /\ UNCHANGED <<cfg, hVars, pc, chanVars, fired, notified, wake, mainVars,
                   quitVars, mainSrv, quitSrv, reqVars, drainVars, result>>

WaitOSSignal_NoGuard ==
    /\ pc = "select"
    /\ sigChan' = IF sigChan > 0 THEN sigChan - 1 ELSE 0
    /\ wake' = "os"
    /\ pc' = "shutdown"
    /\ UNCHANGED <<cfg, hVars, chanVars, fired, notified, sigSent, mainVars,
                   quitVars, mainSrv, quitSrv, reqVars, drainVars, result>>

\* select { case sig := <-sigChan: ... }
WaitOSSignal ==
    /\ pc = "select"
    /\ sigChan > 0
    /\ sigChan' = sigChan - 1
    /\ wake' = "os"
    /\ pc' = "shutdown"
    /\ UNCHANGED <<cfg, hVars, chanVars, fired, notified, sigSent, mainVars,
                   quitVars, mainSrv, quitSrv, reqVars, drainVars, result>>

WaitStopChan_NoGuard ==
    /\ pc = "select"
    /\ wake' = "internal"
    /\ pc' = "shutdown"
    /\ UNCHANGED <<cfg, hVars, chanVars, fired, notified, sigChan, sigSent, mainVars,
                   quitVars, mainSrv, quitSrv, reqVars, drainVars, result>>

WaitStopChan_SkipDrain ==
    /\ pc = "select"
    /\ stopChan.closed
    /\ wake' = "internal"
    /\ pc' = "stopped"
    /\ result' = "nil"
    /\ UNCHANGED <<cfg, hVars, chanVars, fired, notified, sigChan, sigSent, mainVars,
                   quitVars, mainSrv, quitSrv, reqVars, drainVars>>

\* select { case <-stopChan: ... }  a receive on a closed channel is ready
WaitStopChan ==
    /\ pc = "select"
    /\ stopChan.closed
    /\ wake' = "internal"
    /\ pc' = "shutdown"
    /\ UNCHANGED <<cfg, hVars, chanVars, fired, notified, sigChan, sigSent, mainVars,
                   quitVars, mainSrv, quitSrv, reqVars, drainVars, result>>

\* ----------------------------------------------------- shutdownServers
QuitShutdownCtx_Fresh ==
    [made |-> TRUE, deadline |-> now + cfg.ShutdownTimeoutSec]

\* The context handed to quitSrv.Shutdown: the same shutdownCtx.
QuitShutdownCtx == shutdownCtx

ShutdownStart_ClampTimeout ==
    /\ pc = "shutdown"
    /\ cfg' = [cfg EXCEPT !.ShutdownTimeoutSec = IF @ = 0 THEN 1 ELSE @]
    /\ shutdownCtx' =
         [made |-> TRUE, deadline |-> now + cfg'.ShutdownTimeoutSec]
    /\ pollCtx' = shutdownCtx'
    /\ mainSrv' = [inShutdown |-> TRUE]
    /\ calls' = [calls EXCEPT !.ctx = @ + 1, !.main = @ + 1]
    /\ pc' = "drainMain"
    /\ UNCHANGED <<hVars, chanVars, fired, sigVars, mainVars, quitVars, quitSrv,
                   reqVars, now, mainDrain, quitDrain, result>>

ShutdownStart_Both ==
    /\ pc = "shutdown"
    /\ shutdownCtx' = [made |-> TRUE, deadline |-> now + cfg.ShutdownTimeoutSec]
    /\ pollCtx' = shutdownCtx'
    /\ mainSrv' = [inShutdown |-> TRUE]
    /\ quitSrv' = [inShutdown |-> TRUE]
    /\ calls' = [calls EXCEPT !.ctx = @ + 1, !.main = @ + 1]
    /\ pc' = "drainMain"
    /\ UNCHANGED <<cfg, hVars, chanVars, fired, sigVars, mainVars, quitVars,
                   reqVars, now, mainDrain, quitDrain, result>>

\* shutdownCtx, cancel := context.WithTimeout(Background(), shutdownTimeout)
\* and the entry of mainSrv.Shutdown(shutdownCtx): the server is marked as
\* shutting down and its listeners are closed before any waiting.
ShutdownStart ==
    /\ pc = "shutdown"
    /\ shutdownCtx' = [made |-> TRUE, deadline |-> now + cfg.ShutdownTimeoutSec]
    /\ pollCtx' = shutdownCtx'
    /\ mainSrv' = [inShutdown |-> TRUE]
    /\ calls' = [calls EXCEPT !.ctx = @ + 1, !.main = @ + 1]
    /\ pc' = "drainMain"
    /\ UNCHANGED <<cfg, hVars, chanVars, fired, sigVars, mainVars, quitVars, quitSrv,
                   reqVars, now, mainDrain, quitDrain, result>>

DrainOutcome_NoDeadline(active, ctx) ==
    IF active = 0 THEN "clean" ELSE "waiting"

\* One poll of http.Server.Shutdown: nil once no connection is active,
\* ctx.Err() once the context is done.
DrainOutcome(active, ctx) ==
    IF active = 0 THEN "clean"
    ELSE IF Expired(ctx) THEN "timeout"
    ELSE "waiting"

MainDrainReturn_ForceClose ==
    /\ pc = "drainMain"
    /\ DrainOutcome(mainActive, pollCtx) # "waiting"
    /\ mainDrain' = DrainOutcome(mainActive, pollCtx)
    /\ mainActive' = 0
    /\ quitSrv' = [inShutdown |-> TRUE]
    /\ pollCtx' = QuitShutdownCtx
    /\ calls' = [calls EXCEPT !.quit = @ + 1]
    /\ pc' = "drainQuit"
    /\ UNCHANGED <<cfg, hVars, chanVars, fired, sigVars, mainVars, quitVars, mainSrv,
                   quitPending, quitHandled, quitResp,
                   quitMethod, shutdownCtx, now,
                   quitDrain, result>>

MainDrainReturn_ReturnOnError ==
    /\ pc = "drainMain"
    /\ DrainOutcome(mainActive, pollCtx) # "waiting"
    /\ mainDrain' = DrainOutcome(mainActive, pollCtx)
    /\ IF mainDrain' = "timeout"
         THEN /\ pc' = "stopped"
              /\ result' = "nil"
              /\ UNCHANGED <<quitSrv, pollCtx, calls>>
         ELSE /\ quitSrv' = [inShutdown |-> TRUE]
              /\ pollCtx' = QuitShutdownCtx
              /\ calls' = [calls EXCEPT !.quit = @ + 1]
              /\ pc' = "drainQuit"
              /\ UNCHANGED result
    /\ UNCHANGED <<cfg, hVars, chanVars, fired, sigVars, mainVars, quitVars, mainSrv,
                   reqVars, shutdownCtx, now, quitDrain>>

\* mainSrv.Shutdown returns (either way it is only logged), then the entry of
\* quitSrv.Shutdown(shutdownCtx).
MainDrainReturn ==
    /\ pc = "drainMain"
    /\ DrainOutcome(mainActive, pollCtx) # "waiting"
    /\ mainDrain' = DrainOutcome(mainActive, pollCtx)
    /\ quitSrv' = [inShutdown |-> TRUE]
    /\ pollCtx' = QuitShutdownCtx
    /\ calls' = [calls EXCEPT !.quit = @ + 1]
    /\ pc' = "drainQuit"
    /\ UNCHANGED <<cfg, hVars, chanVars, fired, sigVars, mainVars, quitVars, mainSrv,
                   reqVars, shutdownCtx, now, quitDrain, result>>

QuitDrainReturn_FailOnTimeout ==
    /\ pc = "drainQuit"
    /\ DrainOutcome(QuitActive, pollCtx) # "waiting"
    /\ quitDrain' = DrainOutcome(QuitActive, pollCtx)
    /\ pc' = "stopped"
    /\ result' = IF quitDrain' = "timeout" \/ mainDrain = "timeout"
                   THEN "error" ELSE "nil"
    /\ UNCHANGED <<cfg, hVars, chanVars, fired, sigVars, mainVars, quitVars, mainSrv,
                   quitSrv, reqVars, shutdownCtx, pollCtx, now, calls,
                   mainDrain>>

QuitDrainReturn_Loop ==
    /\ pc = "drainQuit"
    /\ DrainOutcome(QuitActive, pollCtx) # "waiting"
    /\ quitDrain' = DrainOutcome(QuitActive, pollCtx)
    /\ pc' = "select"
    /\ UNCHANGED <<cfg, hVars, chanVars, fired, sigVars, mainVars, quitVars, mainSrv,
                   quitSrv, reqVars, shutdownCtx, pollCtx, now, calls,
                   mainDrain, result>>

QuitDrainReturn_PropagateFatal ==
    /\ pc = "drainQuit"
    /\ DrainOutcome(QuitActive, pollCtx) # "waiting"
    /\ quitDrain' = DrainOutcome(QuitActive, pollCtx)
    /\ pc' = "stopped"
    /\ result' = IF mainRet = "fatal" THEN "error" ELSE "nil"
    /\ UNCHANGED <<cfg, hVars, chanVars, fired, sigVars, mainVars, quitVars, mainSrv,
                   quitSrv, reqVars, shutdownCtx, pollCtx, now, calls,
                   mainDrain>>

\* quitSrv.Shutdown returns (only logged); shutdownServers returns and
\* processServe returns nil.
QuitDrainReturn ==
    /\ pc = "drainQuit"
    /\ DrainOutcome(QuitActive, pollCtx) # "waiting"
    /\ quitDrain' = DrainOutcome(QuitActive, pollCtx)
    /\ pc' = "stopped"
    /\ result' = "nil"
    /\ UNCHANGED <<cfg, hVars, chanVars, fired, sigVars, mainVars, quitVars, mainSrv,
                   quitSrv, reqVars, shutdownCtx, pollCtx, now, calls,
                   mainDrain>>

\* A second passes while a Shutdown call polls; the poll's select on
\* ctx.Done() returns as soon as the context expires.
Tick ==
    /\ pc \in {"drainMain", "drainQuit"}
    /\ ~Expired(pollCtx)
    /\ now' = now + 1
    /\ UNCHANGED <<cfg, hVars, pc, chanVars, fired, sigVars, mainVars, quitVars,
                   mainSrv, quitSrv, reqVars, shutdownCtx, pollCtx, calls,
                   mainDrain, quitDrain, result>>

\* ------------------------------------------------------- runMainServer
\* srv.ListenAndServe(): refused at once when the server is shutting down.
MainListenEntry ==
    /\ mainTask = "spawned"
    /\ IF mainSrv.inShutdown
         THEN mainTask' = "done" /\ mainRet' = "ErrServerClosed"
         ELSE mainTask' = "listen" /\ UNCHANGED mainRet
    /\ UNCHANGED <<cfg, hVars, pc, chanVars, fired, sigVars, quitVars, mainSrv,
                   quitSrv, reqVars, drainVars, result>>

\* net.Listen succeeds or fails (port in use, no permission).
MainListenBind ==
    /\ mainTask = "listen"
    /\ \E ok \in BOOLEAN :
         IF ok THEN mainTask' = "bound" /\ UNCHANGED mainRet
               ELSE mainTask' = "failed" /\ mainRet' = "fatal"
    /\ UNCHANGED <<cfg, hVars, pc, chanVars, fired, sigVars, quitVars, mainSrv,
                   quitSrv, reqVars, drainVars, result>>

MainTrackListener_NoCheck ==
    /\ mainTask = "bound"
    /\ mainTask' = "serving"
    /\ UNCHANGED <<cfg, hVars, pc, chanVars, fired, sigVars, quitVars, mainSrv,
                   mainRet, quitSrv, reqVars, drainVars, result>>

\* Serve registers the listener unless Shutdown has begun.
MainTrackListener ==
    /\ mainTask = "bound"
    /\ IF mainSrv.inShutdown
         THEN mainTask' = "done" /\ mainRet' = "ErrServerClosed"
         ELSE mainTask' = "serving" /\ UNCHANGED mainRet
    /\ UNCHANGED <<cfg, hVars, pc, chanVars, fired, sigVars, quitVars, mainSrv,
                   quitSrv, reqVars, drainVars, result>>

\* Accept fails because Shutdown closed the listener.
MainServeClosed ==
    /\ mainTask = "serving"
    /\ mainSrv.inShutdown
    /\ mainTask' = "done"
    /\ mainRet' = "ErrServerClosed"
    /\ UNCHANGED <<cfg, hVars, pc, chanVars, fired, sigVars, quitVars, mainSrv,
                   quitSrv, reqVars, drainVars, result>>

\* Accept fails with a permanent error while the server is not shutting down.
MainAcceptError ==
    /\ mainTask = "serving"
    /\ ~mainSrv.inShutdown
    /\ mainTask' = "failed"
    /\ mainRet' = "fatal"
    /\ UNCHANGED <<cfg, hVars, pc, chanVars, fired, sigVars, quitVars, mainSrv,
                   quitSrv, reqVars, drainVars, result>>

\* err != nil && err != http.ErrServerClosed: closeOnce.Do(close(stopChan))
MainServerError ==
    /\ mainTask = "failed"
    /\ OnceDo
    /\ fired' = [fired EXCEPT !.mainErr = @ + 1]
    /\ mainTask' = "done"
    /\ UNCHANGED <<cfg, hVars, pc, sigVars, mainRet, quitVars, mainSrv, quitSrv,
                   reqVars, drainVars, result>>

runMainServer ==
    \/ MainListenEntry
    \/ MainListenBind
    \/ MainTrackListener
    \/ MainServeClosed
    \/ MainAcceptError
    \/ MainServerError

\* ------------------------------------------------------- runQuitServer
QuitListenEntry ==
    /\ quitTask = "spawned"
    /\ IF quitSrv.inShutdown
         THEN quitTask' = "done" /\ quitRet' = "ErrServerClosed"
         ELSE quitTask' = "listen" /\ UNCHANGED quitRet
    /\ UNCHANGED <<cfg, hVars, pc, chanVars, fired, sigVars, mainVars, mainSrv,
                   quitSrv, reqVars, drainVars, result>>

QuitTrackListener ==
    /\ quitTask = "bound"
    /\ IF quitSrv.inShutdown
         THEN quitTask' = "done" /\ quitRet' = "ErrServerClosed"
         ELSE quitTask' = "serving" /\ UNCHANGED quitRet
    /\ UNCHANGED <<cfg, hVars, pc, chanVars, fired, sigVars, mainVars, mainSrv,
                   quitSrv, reqVars, drainVars, result>>

QuitServeClosed ==
    /\ quitTask = "serving"
    /\ quitSrv.inShutdown
    /\ quitTask' = "done"
    /\ quitRet' = "ErrServerClosed"
    /\ UNCHANGED <<cfg, hVars, pc, chanVars, fired, sigVars, mainVars, mainSrv,
                   quitSrv, reqVars, drainVars, result>>

QuitServerError_Fires ==
    /\ quitTask' = "done"
    /\ quitRet' = "fatal"
    /\ OnceDo
    /\ UNCHANGED fired

\* err != nil && err != http.ErrServerClosed: log.Error only, then return.
QuitServerError ==
    /\ quitTask' = "done"
    /\ quitRet' = "fatal"
    /\ UNCHANGED <<chanVars, fired>>

\* net.Listen on 127.0.0.1:QuitPort succeeds or fails.
QuitListenBind ==
    /\ quitTask = "listen"
    /\ \E ok \in BOOLEAN :
         IF ok THEN quitTask' = "bound" /\ UNCHANGED <<quitRet, chanVars, fired>>
               ELSE QuitServerError
    /\ UNCHANGED <<cfg, hVars, pc, sigVars, mainVars, mainSrv, quitSrv, reqVars,
                   drainVars, result>>

\* Accept fails with a permanent error while the server is not shutting down.
QuitAcceptError ==
    /\ quitTask = "serving"
    /\ ~quitSrv.inShutdown
    /\ QuitServerError
    /\ UNCHANGED <<cfg, hVars, pc, sigVars, mainVars, mainSrv, quitSrv, reqVars,
                   drainVars, result>>

runQuitServer ==
    \/ QuitListenEntry
    \/ QuitListenBind
    \/ QuitTrackListener
    \/ QuitServeClosed
    \/ QuitAcceptError

\* ------------------------------------------------------------ requests
QuitResponse_OnlyFirst ==
    IF closeOnce.done
      THEN [status |-> 409, body |-> "Shutdown already initiated"]
      ELSE [status |-> StatusOK, body |-> QuitBody]

\* w.WriteHeader(http.StatusOK); w.Write([]byte("Initiating shutdown..."))
QuitResponse == [status |-> StatusOK, body |-> QuitBody]

\* The control listener accepts a connection carrying a /quitquitquit call.
QuitAccept ==
    /\ QuitAccepting
    /\ quitPending + Len(quitResp) < MaxQuitCalls
    /\ quitPending' = quitPending + 1
    /\ UNCHANGED <<cfg, hVars, pc, chanVars, fired, sigVars, mainVars, quitVars,
                   mainSrv, quitSrv, mainActive, quitHandled, quitResp,
                   quitMethod,
                   drainVars, result>>

\* Methods the control requests are sent with (the quit command uses POST).
ControlMethods == {"GET", "POST"}

handleQuitSignal_PostOnly ==
    /\ quitPending > 0
    /\ \E m \in ControlMethods :
         /\ quitMethod' = m
         /\ quitResp' = Append(quitResp, QuitResponse)
         /\ IF m = "POST" THEN OnceDo ELSE UNCHANGED chanVars
    /\ fired' = [fired EXCEPT !.quit = @ + 1]
    /\ quitPending' = quitPending - 1
    /\ quitHandled' = quitHandled + 1
    /\ UNCHANGED <<cfg, hVars, pc, sigVars, mainVars, quitVars, mainSrv, quitSrv,
                   mainActive, drainVars, result>>

handleQuitSignal_Restart ==
    /\ quitPending > 0
    /\ \E m \in ControlMethods : quitMethod' = m
    /\ quitResp' = Append(quitResp, QuitResponse)
    /\ OnceDo
    /\ fired' = [fired EXCEPT !.quit = @ + 1]
    /\ quitPending' = quitPending - 1
    /\ quitHandled' = quitHandled + 1
    /\ IF shutdownCtx.made
         THEN /\ shutdownCtx' = [shutdownCtx EXCEPT !.deadline = now + 1]
              /\ pollCtx' = shutdownCtx'
         ELSE UNCHANGED <<shutdownCtx, pollCtx>>
    /\ UNCHANGED <<cfg, hVars, pc, sigVars, mainVars, quitVars, mainSrv, quitSrv,
                   mainActive, now, calls, mainDrain, quitDrain, result>>

\* The handler returned by handleQuitSignal serves one request, of whatever
\* method: r.Method is never read.
handleQuitSignal ==
    /\ quitPending > 0
    /\ \E m \in ControlMethods : quitMethod' = m
    /\ quitResp' = Append(quitResp, QuitResponse)
    /\ OnceDo
    /\ fired' = [fired EXCEPT !.quit = @ + 1]
    /\ quitPending' = quitPending - 1
    /\ quitHandled' = quitHandled + 1
    /\ UNCHANGED <<cfg, hVars, pc, sigVars, mainVars, quitVars, mainSrv, quitSrv,
                   mainActive, drainVars, result>>

\* The response is flushed and the control connection goes idle.
QuitConnDone ==
    /\ quitHandled > 0
    /\ quitHandled' = quitHandled - 1
    /\ UNCHANGED <<cfg, hVars, pc, chanVars, fired, sigVars, mainVars, quitVars,
                   mainSrv, quitSrv, mainActive, quitPending, quitResp,
                   quitMethod,
                   drainVars, result>>

\* The public listener accepts a request; its handler then runs for as long
\* as the upstream takes (there is no per-request timeout).
MainAccept ==
    /\ MainAccepting
    /\ mainActive < MaxInflight
    /\ mainActive' = mainActive + 1
    /\ UNCHANGED <<cfg, hVars, pc, chanVars, fired, sigVars, mainVars, quitVars,
                   mainSrv, quitSrv, quitPending, quitHandled, quitResp,
                   quitMethod,
                   drainVars, result>>

MainRequestDone ==
    /\ mainActive > 0
    /\ mainActive' = mainActive - 1
    /\ UNCHANGED <<cfg, hVars, pc, chanVars, fired, sigVars, mainVars, quitVars,
                   mainSrv, quitSrv, quitPending, quitHandled, quitResp,
                   quitMethod,
                   drainVars, result>>

\* ------------------------------------------------------- specification
waitForShutdownSignal == NotifySignals \/ WaitOSSignal \/ WaitStopChan

shutdownServers == ShutdownStart \/ MainDrainReturn \/ QuitDrainReturn

processServe ==
    \/ ConfigCheck
    \/ SetupServers
    \/ StartServers
    \/ waitForShutdownSignal
    \/ shutdownServers

Next ==
    \/ processServe
    \/ runMainServer
    \/ runQuitServer
    \/ OSSignal
    \/ Tick
    \/ QuitAccept
    \/ handleQuitSignal
    \/ QuitConnDone
    \/ MainAccept
    \/ MainRequestDone

Spec == Init /\ [][Next]_vars

\* Goroutines are scheduled fairly and time passes.
LiveSpec ==
    /\ Spec
    /\ WF_vars(processServe)
    /\ WF_vars(MainServerError)
    /\ WF_vars(Tick)

\* ---------------------------------------------------- lifecycle state
\* The controller's state, read off the position of processServe: it exists
\* from setupServers on; the configuration check comes before it.
State ==
    CASE pc = "check" -> "Unconfigured"
      [] pc = "failed" -> "Failed"
      [] pc \in {"setup", "start"} -> "Starting"
      [] pc \in {"notify", "select"} -> "Running"
      [] pc \in {"shutdown", "drainMain", "drainQuit"} -> "Draining"
      [] pc = "stopped" -> "Stopped"

\* A shutdown trigger has occurred and is still to be acted upon.
Triggered == sigChan > 0 \/ stopChan.closed \/ mainTask = "failed"

\* ---------------------------------------------------------------- claims

\* C1: under every interleaving of control-endpoint calls and a public
\* listener fatal error, close(stopChan) is executed at most once, no close of
\* a closed channel (panic) happens, and once the guard is used up every
\* further trigger leaves the channel as it is.
C1_CloseAtMostOnce ==
    /\ [](closes <= 1 /\ ~panicked)
    /\ [][closeOnce.done => (stopChan' = stopChan /\ closes' = closes)]_vars

C1_Witness ==
    fired.quit >= 2 /\ fired.mainErr = 1 /\ closes = 1 /\ stopChan.closed

\* C2: whatever triggers fire, shutdownServers runs at most once (one context,
\* one Shutdown call per server), and exactly once when processServe has
\* returned from a started controller.
C2_ShutdownExactlyOnce ==
    /\ calls.ctx <= 1 /\ calls.main <= 1 /\ calls.quit <= 1
    /\ calls.quit <= calls.main /\ calls.main = calls.ctx
    /\ (State = "Stopped" => calls = [ctx |-> 1, main |-> 1, quit |-> 1])
    /\ (State \in {"Unconfigured", "Starting", "Running"}
          => calls = [ctx |-> 0, main |-> 0, quit |-> 0])

C2_Witness ==
    /\ State = "Stopped"
    /\ fired.quit >= 2 /\ fired.mainErr = 1 /\ sigSent >= 1
    /\ calls.main = 1 /\ calls.quit = 1

\* C3 (as stated): by the time draining begins the shutdown channel has been
\* closed exactly once, whichever trigger came first.
C3_Original ==
    State \in {"Draining", "Stopped"} => (closes = 1 /\ stopChan.closed)

\* C3 (amended): the channel is closed at most once and never reopened; it has
\* been closed exactly once when draining begins on the internal branch of the
\* select, while a drain begun by an OS signal may find it never closed.
C3_Amended ==
    /\ [](/\ closes <= 1
          /\ (stopChan.closed <=> closes = 1)
          /\ (State \in {"Draining", "Stopped"} /\ wake = "internal"
                => closes = 1)
          /\ (State \in {"Draining", "Stopped"} /\ closes = 0
                => wake = "os"))
    /\ [][stopChan.closed => stopChan'.closed]_vars

C3_Witness ==
    pc = "drainMain" /\ wake = "internal" /\ closes = 1 /\ sigChan > 0

\* C4: every trigger that occurs while Running (a signal in sigChan, a closed
\* stopChan, a fatal ListenAndServe error of the public listener) leads to
\* Stopped, given fair scheduling and the passing of time.
C4_TriggerLeadsToStopped ==
    (State = "Running" /\ Triggered) ~> (State = "Stopped")

C4_Witness ==
    State = "Stopped" /\ result = "nil" /\ wake = "internal" /\ fired.quit = 1
      /\ mainDrain = "timeout"

\* C5: shutdownServers creates one deadline of ShutdownTimeoutSec that both
\* Shutdown calls share, never waits past it, and always returns.
C5_SharedDeadline ==
    /\ [](/\ calls.ctx <= 1
          /\ now <= cfg.ShutdownTimeoutSec
          /\ (shutdownCtx.made =>
                shutdownCtx.deadline = cfg.ShutdownTimeoutSec))
    /\ (State = "Draining" ~> State = "Stopped")

C5_Witness ==
    /\ State = "Stopped"
    /\ cfg.ShutdownTimeoutSec > 0
    /\ now = cfg.ShutdownTimeoutSec
    /\ mainDrain = "timeout" /\ quitDrain = "timeout"
    /\ mainActive > 0 /\ QuitActive > 0

\* C6 (as stated): after shutdownServers has returned neither listener accepts
\* and no accept-loop task fires a further trigger.
C6_Original ==
    /\ [](State = "Stopped" => ~MainAccepting /\ ~QuitAccepting)
    /\ [][State = "Stopped" => fired'.mainErr = fired.mainErr]_vars

\* C6 (amended): after shutdownServers has returned neither listener accepts,
\* whether the drains were clean or timed out, and none starts accepting; the
\* control task fires nothing, and the public task calls the guarded close
\* only when its ListenAndServe had returned a fatal error, once, without
\* starting another drain.
C6_Amended ==
    /\ [](State = "Stopped" =>
            /\ ~MainAccepting /\ ~QuitAccepting
            /\ mainSrv.inShutdown /\ quitSrv.inShutdown
            /\ mainDrain \in {"clean", "timeout"}
            /\ quitDrain \in {"clean", "timeout"})
    /\ [][State = "Stopped" =>
            /\ (mainTask' = "serving" => mainTask = "serving")
            /\ (quitTask' = "serving" => quitTask = "serving")
            /\ (quitTask' # quitTask => UNCHANGED <<chanVars, fired>>)
            /\ (fired'.mainErr # fired.mainErr =>
                  /\ mainRet = "fatal" /\ fired.mainErr = 0
                  /\ closes' <= 1
                  /\ pc' = pc /\ calls' = calls)]_vars

C6_Witness ==
    /\ State = "Stopped" /\ mainTask = "failed" /\ wake = "os"
    /\ quitDrain = "timeout" /\ quitTask = "done"

\* C7: a fatal error of the public listener's ListenAndServe fires the
\* shutdown signal; a fatal error of the control listener's never does and
\* changes nothing of the controller or the public listener.
C7_AsymmetricPromotion ==
    /\ [][(quitRet' = "fatal" /\ quitRet # "fatal") =>
            UNCHANGED <<chanVars, fired, sigVars, pc, mainVars, mainSrv,
                        mainActive>>]_vars
    /\ [][(mainTask = "failed" /\ mainTask' # "failed") =>
            fired'.mainErr = fired.mainErr + 1 /\ stopChan'.closed]_vars
    /\ [](mainRet = "fatal" /\ mainTask = "done" => stopChan.closed)

C7_Witness ==
    /\ quitRet = "fatal" /\ State = "Running" /\ pc = "select"
    /\ MainAccepting /\ mainActive > 0
    /\ ~stopChan.closed /\ sigChan = 0

\* C8: shutdownServers starts only after a trigger: an OS signal taken from
\* sigChan, or stopChan closed by a control call or by the public listener's
\* fatal error.
C8_NoSpontaneousDrain ==
    /\ (State \in {"Draining", "Stopped"} =>
          \/ wake = "os" /\ sigSent >= 1
          \/ wake = "internal" /\ stopChan.closed
               /\ fired.quit + fired.mainErr >= 1)
    /\ (State \notin {"Draining", "Stopped"} =>
          wake = "none" /\ ~mainSrv.inShutdown /\ ~quitSrv.inShutdown)

C8_Witness ==
    pc = "shutdown" /\ wake = "os" /\ ~stopChan.closed /\ fired.quit = 0

\* C9: the lifecycle state advances only Starting, Running, Draining, Stopped,
\* one step at a time, never backwards, and nothing leaves Stopped.
C9_LifecycleOrder ==
    [][\/ State' = State
       \/ <<State, State'>> \in
            {<<"Unconfigured", "Failed">>, <<"Unconfigured", "Starting">>,
             <<"Starting", "Running">>, <<"Running", "Draining">>,
             <<"Draining", "Stopped">>}]_vars

C9_Witness ==
    State = "Stopped" /\ mainTask = "done" /\ quitTask = "done"
      /\ mainRet = "ErrServerClosed" /\ quitRet = "ErrServerClosed"

\* C10: every served /quitquitquit call, the first and each later one, is
\* answered 200 "Initiating shutdown...", and from the first served call on
\* the shutdown channel is closed and stays closed.
C10_QuitIdempotent ==
    /\ [](/\ \A i \in 1..Len(quitResp) :
               quitResp[i] = [status |-> 200, body |-> "Initiating shutdown..."]
          /\ Len(quitResp) = fired.quit
          /\ (Len(quitResp) >= 1 => stopChan.closed /\ ~panicked))
    /\ [][Len(quitResp) >= 1 => stopChan'.closed]_vars

C10_Witness ==
    Len(quitResp) >= 2 /\ stopChan.closed /\ closes = 1 /\ fired.mainErr = 0

\* ================================================ public request handlers
\* net/http status codes used by the handlers
StatusMovedPermanently == 301
StatusBadRequest == 400
StatusMethodNotAllowed == 405
StatusInternalServerError == 500
StatusBadGateway == 502
StatusServiceUnavailable == 503
defaultShutdownTimeoutSec == 15

\* ---------------------------------------------------------------- inputs
Methods == {"GET", "POST", "DELETE"}

ChatPath == "/v1/chat/completions"
ModelsPath == "/v1/models"
HealthPath == "/healthz"
Paths == {ChatPath, ModelsPath, HealthPath, "/invalid/path", "/v1//models"}

\* path.Clean as the mux applies it, on the paths above.
CleanPath(p) == IF p = "/v1//models" THEN ModelsPath ELSE p

\* A configured base URL that http.NewRequest cannot parse.
BadURL == "http://open webui"

\* A model name holding a byte that is not valid UTF-8, and what
\* json.Unmarshal makes of it (the byte becomes U+FFFD).
InvalidUTF8 == "bad\\xff"
ReplacedUTF8 == "bad\\ufffd"
DecodeString(str) == IF str = InvalidUTF8 THEN ReplacedUTF8 ELSE str

ModelNames == {"", "test-model", InvalidUTF8}
UserHello == [role |-> "user", content |-> "Hello"]
MessageLists == {<<>>, <<UserHello>>}
SystemBrief == [role |-> "system", content |-> "Be brief"]
BothKeys == {"model", "messages"}

\* Inbound bodies: one that cannot be read, the empty body, "{invalid json",
\* {"model": 5}, null, and JSON objects with a model and messages.
\* An object body records which of the two keys it has (has), the values of
\* those keys, and whether it holds other keys as well (extra), such as
\* "temperature" or "stream".
ReqBodies ==
    {[kind |-> k] : k \in {"unreadable", "empty", "malformed", "mistyped",
                           "null"}}
    \cup {[kind |-> "object", model |-> m, messages |-> ms,
           has |-> BothKeys, extra |-> FALSE] :
            m \in ModelNames, ms \in MessageLists}

\* Further chat bodies: other keys besides model and messages, two messages,
\* and objects lacking model, messages or both.
HelloBody ==
    [kind |-> "object", model |-> "test-model", messages |-> <<UserHello>>,
     has |-> BothKeys, extra |-> FALSE]
ChatBodies ==
    {HelloBody,
     [HelloBody EXCEPT !.extra = TRUE],
     [HelloBody EXCEPT !.extra = TRUE,
                       !.messages = <<SystemBrief, UserHello>>],
     [HelloBody EXCEPT !.has = {"messages"}, !.model = ""],
     [HelloBody EXCEPT !.has = {"messages"}, !.model = "", !.extra = TRUE,
                       !.messages = <<SystemBrief, UserHello>>],
     [HelloBody EXCEPT !.has = {"model"}, !.messages = <<>>],
     [HelloBody EXCEPT !.has = {}, !.model = "", !.messages = <<>>,
                       !.extra = TRUE]}

\* r.URL.RawQuery
Queries == {"", "limit=5"}

\* r.Header as the server hands it to the handler (the Host header is not in
\* it: net/http moves it to r.Host).
NoHeaders == {}
SomeHeaders ==
    {<<"Content-Length", "27">>, <<"Authorization", "Bearer t0ken">>,
     <<"Accept", "text/plain">>, <<"Accept", "application/json">>,
     <<"X-Trace", "abc">>}
HeaderSets == {NoHeaders, SomeHeaders}

QuitPath == "/quitquitquit"
ForwardPaths ==
    {ModelsPath, "/v1/v1/models", "/v1beta/models", "/invalid/path", QuitPath}

\* The requests followed: every method, path and body without headers and
\* query; chat requests with the further bodies; forwarded requests with
\* headers and a query string.
Requests ==
    {[method |-> m, path |-> p, query |-> "", headers |-> NoHeaders,
      body |-> b] : m \in Methods, p \in Paths, b \in ReqBodies}
    \cup {[method |-> "POST", path |-> ChatPath, query |-> "",
           headers |-> h, body |-> b] : h \in HeaderSets, b \in ChatBodies}
    \cup {[method |-> m, path |-> p, query |-> q, headers |-> h, body |-> b] :
            m \in {"GET", "POST"}, p \in ForwardPaths, q \in Queries,
            h \in HeaderSets, b \in {[kind |-> "empty"], HelloBody}}

\* Upstream response bodies.
UB_Chat ==
    "{\"message\":{\"role\":\"assistant\",\"content\":\"hello\"},\"status\":\"ok\"}"
UB_Boom == "boom"
UB_ModelErr == "{\"error\": \"Model not found\"}"
UB_Models == "[{\"id\":\"m1\",\"name\":\"Model 1\",\"status\":\"active\"}]"
UpBodies == {UB_Chat, UB_Boom, UB_ModelErr, UB_Models, ""}
UpStatuses == {200, 201, 400, 404, 500}

JSONHeader == <<"Content-Type", "application/json">>
UpHeaders(body) ==
    IF body \in {UB_Chat, UB_ModelErr} THEN {JSONHeader}
    ELSE IF body = UB_Models
      THEN {JSONHeader, <<"Set-Cookie", "a=1">>, <<"Set-Cookie", "b=2">>}
    ELSE {}

\* What the upstream does with a call: no response at all (refused, reset,
\* timed out), or a response whose body arrives whole or breaks off.
Upstreams ==
    {[reach |-> "fail"], [reach |-> "hang"]}
    \cup {[reach |-> "ok", status |-> st, headers |-> UpHeaders(b),
           body |-> b, readOK |-> ok] :
            st \in UpStatuses, b \in UpBodies, ok \in BOOLEAN}

\* The body bytes io.ReadAll / io.Copy obtain from the upstream response.
Received(up) == IF up.readOK THEN up.body ELSE ""

\* ------------------------------------------------------------ responses
\* http.Error(w, msg, code)
HttpError(msg, code) ==
    [status |-> code,
     headers |-> {<<"Content-Type", "text/plain; charset=utf-8">>,
                  <<"X-Content-Type-Options", "nosniff">>},
     body |-> [text |-> msg \o "\n"]]

Outcome(resp, sent) == [resp |-> resp, calls |-> sent]

\* http.NewRequest fails on a URL it cannot parse.
NewRequestOK(base) == base # BadURL

\* ------------------------------------------------- handleChatCompletions
ParseChatRequest_Lenient(body) ==
    CASE body.kind = "object" ->
           [ok |-> TRUE,
            req |-> [Model |-> IF "model" \in body.has
                                 THEN DecodeString(body.model) ELSE "",
                     Messages |-> IF "messages" \in body.has
                                    THEN body.messages ELSE <<>>]]
      [] body.kind \in {"null", "empty"} ->
           [ok |-> TRUE, req |-> [Model |-> "", Messages |-> <<>>]]
      [] OTHER -> [ok |-> FALSE]

ParseChatRequest_Strict(body) ==
    CASE body.kind = "object" /\ body.has = BothKeys /\ ~body.extra ->
           [ok |-> TRUE,
            req |-> [Model |-> DecodeString(body.model),
                     Messages |-> body.messages]]
      [] OTHER -> [ok |-> FALSE]

\* json.Unmarshal(body, &openaiReq): keys other than model and messages are
\* ignored, a missing key leaves the zero value.
ParseChatRequest(body) ==
    CASE body.kind = "object" ->
           [ok |-> TRUE,
            req |-> [Model |-> IF "model" \in body.has
                                 THEN DecodeString(body.model) ELSE "",
                     Messages |-> IF "messages" \in body.has
                                    THEN body.messages ELSE <<>>]]
      [] body.kind = "null" ->
           [ok |-> TRUE, req |-> [Model |-> "", Messages |-> <<>>]]
      [] OTHER -> [ok |-> FALSE]

ParseWebUIResponse_ZeroOnError(bytes) ==
    CASE bytes = UB_Chat ->
           [ok |-> TRUE,
            resp |-> [Message |-> [role |-> "assistant", content |-> "hello"],
                      Status |-> "ok"]]
      [] OTHER ->
           [ok |-> TRUE,
            resp |-> [Message |-> [role |-> "", content |-> ""],
                      Status |-> ""]]

ParseWebUIResponse_ContentOnly(bytes) ==
    CASE bytes = UB_Chat ->
           [ok |-> TRUE,
            resp |-> [Message |-> [role |-> "", content |-> "hello"],
                      Status |-> "ok"]]
      [] bytes = UB_ModelErr ->
           [ok |-> TRUE,
            resp |-> [Message |-> [role |-> "", content |-> ""],
                      Status |-> ""]]
      [] OTHER -> [ok |-> FALSE]

\* json.Unmarshal(webuiRespBody, &webuiResp)
ParseWebUIResponse(bytes) ==
    CASE bytes = UB_Chat ->
           [ok |-> TRUE,
            resp |-> [Message |-> [role |-> "assistant", content |-> "hello"],
                      Status |-> "ok"]]
      [] bytes = UB_ModelErr ->
           [ok |-> TRUE,
            resp |-> [Message |-> [role |-> "", content |-> ""],
                      Status |-> ""]]
      [] OTHER -> [ok |-> FALSE]

UpstreamErrorText_NoBody(status, bytes) ==
    "Open-WebUI Error (" \o ToString(status) \o ")"

\* fmt.Sprintf("Open-WebUI Error (%d): %s", resp.StatusCode, string(bodyBytes))
UpstreamErrorText(status, bytes) ==
    "Open-WebUI Error (" \o ToString(status) \o "): " \o bytes

ChatUpstreamFailed_ErrorsOnly(status) == status >= StatusBadRequest

\* Which statuses of the upstream count as a failure of the chat call.
ChatUpstreamFailed(status) == status # StatusOK

OpenAIChatResponse_UpstreamStatus(openaiReq, webuiResp, uuid, created) ==
    [id |-> "chatcmpl-" \o uuid,
     object |-> "chat.completion",
     created |-> created,
     model |-> webuiResp.Status,
     choices |-> <<[index |-> 0, message |-> webuiResp.Message,
                    finish_reason |-> "stop"]>>,
     usage |-> [prompt_tokens |-> 0, completion_tokens |-> 0,
                total_tokens |-> 0]]

\* openaiResp := OpenAIChatResponse{...}; uuid stands for randomString(10)
\* and created for time.Now().Unix()
OpenAIChatResponse(openaiReq, webuiResp, uuid, created) ==
    [id |-> "chatcmpl-" \o uuid,
     object |-> "chat.completion",
     created |-> created,
     model |-> openaiReq.Model,
     choices |-> <<[index |-> 0, message |-> webuiResp.Message,
                    finish_reason |-> "stop"]>>,
     usage |-> [prompt_tokens |-> 0, completion_tokens |-> 0,
                total_tokens |-> 0]]

\* req.Header.Set("Content-Type", ...) and the relayed Authorization
ChatHeaders(headers) ==
    {JSONHeader} \cup {kv \in headers : kv[1] = "Authorization"}

\* json.Marshal(openaiReq) POSTed to <upstream>/chat
ChatCall(base, openaiReq, headers) ==
    [method |-> "POST", url |-> base \o "/chat",
     headers |-> ChatHeaders(headers), body |-> [json |-> openaiReq]]

\* The whole of handleChatCompletions for one request.
ChatCompletions(req, up, base, uuid, created) ==
    LET parsed == ParseChatRequest(req.body)
        sent == <<ChatCall(base, parsed.req, req.headers)>>
    IN  IF req.body.kind = "unreadable"
          THEN Outcome(HttpError("Failed to read request body",
                                 StatusBadRequest), <<>>)
        ELSE IF ~parsed.ok
          THEN Outcome(HttpError("Invalid JSON format", StatusBadRequest),
                       <<>>)
        ELSE IF ~NewRequestOK(base)
          THEN Outcome(HttpError("Failed to create request to WebUI",
                                 StatusInternalServerError), <<>>)
        ELSE IF up.reach = "hang"
          THEN Outcome(NoResponse, sent)
        ELSE IF up.reach = "fail"
          THEN Outcome(HttpError("Failed to contact Open-WebUI",
                                 StatusBadGateway), sent)
        ELSE IF ChatUpstreamFailed(up.status)
          THEN Outcome(HttpError(UpstreamErrorText(up.status, Received(up)),
                                 StatusBadGateway), sent)
        ELSE IF ~up.readOK
          THEN Outcome(HttpError("Failed to read WebUI response",
                                 StatusInternalServerError), sent)
        ELSE IF ~ParseWebUIResponse(up.body).ok
          THEN Outcome(HttpError("Invalid WebUI response format",
                                 StatusInternalServerError), sent)
        ELSE Outcome([status |-> StatusOK,
                      headers |-> {JSONHeader},
                      body |-> [json |-> OpenAIChatResponse(parsed.req,
                                   ParseWebUIResponse(up.body).resp, uuid,
                                   created)]],
                     sent)

\* --------------------------------------------------- forwardAndTransform
TrimV1_Every(p) ==
    CASE p = ChatPath -> "/chat/completions"
      [] p = ModelsPath -> "/models"
      [] p = "/v1//models" -> "//models"
      [] p = "/v1/v1/models" -> "/models"
      [] p = "/v1beta/models" -> "beta/models"
      [] OTHER -> p

\* strings.TrimPrefix(r.URL.Path, "/v1"), on the paths above.
TrimV1(p) ==
    CASE p = ChatPath -> "/chat/completions"
      [] p = ModelsPath -> "/models"
      [] p = "/v1//models" -> "//models"
      [] p = "/v1/v1/models" -> "/v1/models"
      [] p = "/v1beta/models" -> "beta/models"
      [] OTHER -> p

RelayStatus_Gateway(status) ==
    IF status >= StatusInternalServerError THEN StatusBadGateway ELSE status

\* w.WriteHeader(resp.StatusCode)
RelayStatus(status) == status

ForwardHeaders_All(headers) == headers

\* for k, vv := range r.Header: every value except Host and Content-Length
ForwardHeaders(headers) ==
    {kv \in headers : kv[1] \notin {"Host", "Content-Length"}}

ForwardCall_WithQuery(req, base) ==
    [method |-> req.method,
     url |-> IF req.query = "" THEN base \o TrimV1(req.path)
             ELSE base \o TrimV1(req.path) \o "?" \o req.query,
     headers |-> ForwardHeaders(req.headers),
     body |-> IF req.method = "POST" THEN req.body ELSE [kind |-> "none"]]

ForwardCall(req, base) ==
    [method |-> req.method,
     url |-> base \o TrimV1(req.path),
     headers |-> ForwardHeaders(req.headers),
     body |-> IF req.method = "POST" THEN req.body ELSE [kind |-> "none"]]

ForwardAndTransform_GatewayTimeout(req, up, base) ==
    LET sent == <<ForwardCall(req, base)>>
    IN  IF req.method = "POST" /\ req.body.kind = "unreadable"
          THEN Outcome(HttpError("Failed to read request body",
                                 StatusBadRequest), <<>>)
        ELSE IF ~NewRequestOK(base)
          THEN Outcome(HttpError("Failed to create forward request",
                                 StatusInternalServerError), <<>>)
        ELSE IF up.reach = "hang"
          THEN Outcome(NoResponse, sent)
        ELSE IF up.reach = "fail"
          THEN Outcome(HttpError("Failed to contact upstream service", 504),
                       sent)
        ELSE Outcome([status |-> RelayStatus(up.status),
                      headers |-> up.headers,
                      body |-> [text |-> Received(up)]], sent)

\* The whole of forwardAndTransform for one request.
ForwardAndTransform(req, up, base) ==
    LET sent == <<ForwardCall(req, base)>>
    IN  IF req.method = "POST" /\ req.body.kind = "unreadable"
          THEN Outcome(HttpError("Failed to read request body",
                                 StatusBadRequest), <<>>)
        ELSE IF ~NewRequestOK(base)
          THEN Outcome(HttpError("Failed to create forward request",
                                 StatusInternalServerError), <<>>)
        ELSE IF up.reach = "hang"
          THEN Outcome(NoResponse, sent)
        ELSE IF up.reach = "fail"
          THEN Outcome(HttpError("Failed to contact upstream service",
                                 StatusBadGateway), sent)
        ELSE Outcome([status |-> RelayStatus(up.status),
                      headers |-> up.headers,
                      body |-> [text |-> Received(up)]], sent)

\* ------------------------------------------------------------ handleHealth
HealthOK_Any2xx(status) == status \in 200..299

\* resp.StatusCode != http.StatusOK is reported as unhealthy.
HealthOK(status) == status = StatusOK

HealthCall(base) ==
    [method |-> "GET", url |-> base \o "/health", body |-> [kind |-> "none"]]

\* client.Do of the health probe returns a response: the upstream is
\* reachable and replies within the client's Timeout.
Replied(up) == up.reach = "ok"

\* The whole of handleHealth for one request.
Health(up, base) ==
    LET sent == <<HealthCall(base)>>
    IN  IF ~NewRequestOK(base)
          THEN Outcome(HttpError("Internal Server Error",
                                 StatusInternalServerError), <<>>)
        ELSE IF ~Replied(up)
          THEN Outcome(HttpError("Upstream service unavailable",
                                 StatusServiceUnavailable), sent)
        ELSE IF ~HealthOK(up.status)
          THEN Outcome(HttpError("Upstream service unhealthy (status: "
                                   \o ToString(up.status) \o ")",
                                 StatusServiceUnavailable), sent)
        ELSE Outcome([status |-> StatusOK, headers |-> {},
                      body |-> [text |-> "OK"]], sent)

\* ------------------------------------------------- mainMux and handleRoot
MuxTarget_QuitOnPublic(path) ==
    IF CleanPath(path) # path THEN "redirect"
    ELSE IF path = HealthPath THEN "health"
    ELSE IF path = QuitPath THEN "quit"
    ELSE "root"

\* mainMux: "/healthz" goes to handleHealth, everything else to handleRoot;
\* a path that is not in its cleaned form is answered by a redirect.
MuxTarget(path) ==
    IF CleanPath(path) # path THEN "redirect"
    ELSE IF path = HealthPath THEN "health"
    ELSE "root"

MethodAllowed_Any(method) == TRUE

\* r.Method != http.MethodPost && r.Method != http.MethodGet is refused
MethodAllowed(method) == method \in {"POST", "GET"}

RootTarget_NoPrefix(path) ==
    IF path = "/chat/completions" THEN "chat" ELSE "forward"

\* r.URL.Path == "/v1/chat/completions"
RootTarget(path) == IF path = ChatPath THEN "chat" ELSE "forward"

UUIDs == {"3f2a", "9c1e"}
Epochs == {1700000000, 1700000001}

\* ------------------------------------------------------------- actions
Finish(out) ==
    /\ hresp' = out.resp
    /\ upCalls' = upCalls \o out.calls
    /\ hpc' = "done"

Start_EarlyHeader(out) ==
    IF out.calls = <<>>
      THEN Finish(out)
      ELSE /\ upCalls' = upCalls \o out.calls
           /\ hpc' = "calling"
           /\ hresp' = [NoResponse EXCEPT !.status = StatusOK]

\* The handler runs up to its upstream call: it answers at once when it
\* fails before the call, otherwise it sends the call and waits in client.Do.
Start(out) ==
    IF out.calls = <<>>
      THEN Finish(out)
      ELSE /\ upCalls' = upCalls \o out.calls
           /\ hpc' = "calling"
           /\ UNCHANGED hresp

\* What the handler named by target does with the request.
Handle(target, uuid, created) ==
    CASE target = "chat" ->
           ChatCompletions(hreq, upstream, cfg.OpenWebUIURL, uuid, created)
      [] target = "forward" ->
           ForwardAndTransform(hreq, upstream, cfg.OpenWebUIURL)
      [] target = "health" ->
           Health(upstream, cfg.OpenWebUIURL)

\* mainMux dispatches the request.
ServeMux ==
    /\ hpc = "arrived"
    /\ route' = <<MuxTarget(hreq.path)>>
    /\ IF MuxTarget(hreq.path) = "redirect"
         THEN Finish(Outcome([status |-> StatusMovedPermanently,
                              headers |-> {<<"Location", CleanPath(hreq.path)>>},
                              body |-> [text |-> ""]], <<>>))
         ELSE hpc' = "routed" /\ UNCHANGED <<hresp, upCalls>>
    /\ UNCHANGED <<lifeVars, hreq, upstream>>

\* handler.handleRoot, with the handler it delegates to, up to client.Do.
handleRoot ==
    /\ hpc = "routed"
    /\ route = <<"root">>
    /\ IF ~MethodAllowed(hreq.method)
         THEN /\ route' = <<"root", "405">>
              /\ Finish(Outcome(HttpError("Method not allowed",
                                          StatusMethodNotAllowed), <<>>))
         ELSE /\ route' = <<"root", RootTarget(hreq.path)>>
              /\ \E uuid \in UUIDs, created \in Epochs :
                   Start(Handle(RootTarget(hreq.path), uuid, created))
    /\ UNCHANGED <<lifeVars, hreq, upstream>>

\* handler.handleHealth, up to client.Do.
handleHealth ==
    /\ hpc = "routed"
    /\ route = <<"health">>
    /\ Start(Handle("health", "", 0))
    /\ UNCHANGED <<lifeVars, hreq, upstream, route>>

UpstreamReturn_Retry ==
    /\ hpc = "calling"
    /\ upstream.reach # "hang"
    /\ IF upstream.reach = "fail" /\ Len(upCalls) < 2
         THEN /\ upCalls' = upCalls \o upCalls
              /\ UNCHANGED <<hresp, hpc>>
         ELSE /\ \E uuid \in UUIDs, created \in Epochs :
                   hresp' = Handle(route[Len(route)], uuid, created).resp
              /\ hpc' = "done"
              /\ UNCHANGED upCalls
    /\ UNCHANGED <<lifeVars, hreq, upstream, route>>

\* client.Do returns (a response or a transport error) and the handler runs
\* to its end, writing the response.
UpstreamReturn ==
    /\ hpc = "calling"
    /\ upstream.reach # "hang"
    /\ \E uuid \in UUIDs, created \in Epochs :
         hresp' = Handle(route[Len(route)], uuid, created).resp
    /\ hpc' = "done"
    /\ UNCHANGED <<lifeVars, hreq, upstream, route, upCalls>>

ClientTimeout_Never ==
    /\ FALSE
    /\ UNCHANGED vars

\* client := &http.Client{Timeout: 5 * time.Second}: the health probe's
\* client.Do gives up on an upstream that does not reply.
ClientTimeout ==
    /\ hpc = "calling"
    /\ route = <<"health">>
    /\ upstream.reach = "hang"
    /\ hresp' = Handle("health", "", 0).resp
    /\ hpc' = "done"
    /\ UNCHANGED <<lifeVars, hreq, upstream, route, upCalls>>

\* ------------------------------------------------- handler specification
\* One request arrives at a running gateway whose public listener serves;
\* the request and the upstream's behaviour range over the inputs above.
HandlerInit ==
    /\ cfg \in {Config(u, defaultShutdownTimeoutSec) : u \in {WebUIURL, BadURL}}
    /\ pc = "select"
    /\ stopChan = [made |-> TRUE, closed |-> FALSE]
    /\ closeOnce = [done |-> FALSE]
    /\ closes = 0
    /\ panicked = FALSE
    /\ fired = [quit |-> 0, mainErr |-> 0]
    /\ notified = TRUE
    /\ sigChan = 0
    /\ sigSent = 0
    /\ wake = "none"
    /\ mainTask = "serving"
    /\ quitTask = "serving"
    /\ mainRet = "none"
    /\ quitRet = "none"
    /\ mainSrv = [inShutdown |-> FALSE]
    /\ quitSrv = [inShutdown |-> FALSE]
    /\ mainActive = 1
    /\ quitPending = 0
    /\ quitHandled = 0
    /\ quitResp = <<>>
    /\ quitMethod = ""
    /\ shutdownCtx = NoCtx
    /\ pollCtx = NoCtx
    /\ now = 0
    /\ calls = [ctx |-> 0, main |-> 0, quit |-> 0]
    /\ mainDrain = "none"
    /\ quitDrain = "none"
    /\ result = "running"
    /\ hreq \in Requests
    /\ upstream \in Upstreams
    /\ hpc = "arrived"
    /\ route = <<>>
    /\ upCalls = <<>>
    /\ hresp = NoResponse

HandlerNext ==
    \/ ServeMux
    \/ handleRoot
    \/ handleHealth
    \/ UpstreamReturn
    \/ ClientTimeout

HandlerSpec == HandlerInit /\ [][HandlerNext]_vars

\* Handler goroutines are scheduled and the client's timer runs.
HandlerLiveSpec == HandlerSpec /\ WF_vars(HandlerNext)

\* The request has been answered.
Done == hpc = "done"
Via(handler) == Done /\ route = handler

C12_TwoRoutes ==
    (Done /\ hreq.method \in {"GET", "POST"} /\ Len(route) = 2
          /\ route[1] = "root")
      => /\ route[2] = (IF hreq.path = "/v1/chat/completions"
                          THEN "chat" ELSE "forward")
         /\ hresp.status = 404
              => (/\ route[2] = "forward"
                  /\ upstream.reach = "ok"
                  /\ upstream.status = 404)
         /\ (route[2] = "forward" /\ upCalls # <<>> /\ upstream.reach = "fail")
              => hresp.status = StatusBadGateway

C12_Witness ==
    /\ Done
    /\ hreq.method = "GET"
    /\ hreq.path = "/invalid/path"
    /\ upstream.reach = "fail"
    /\ route = <<"root", "forward">>
    /\ hresp.status = StatusBadGateway

\* C13: a chat-completion request whose body does not parse as a ChatRequest
\* (malformed JSON, wrongly typed JSON, the empty body) is answered 400 and
\* no upstream call is made for it.
C13_BadBodyRejected ==
    (/\ Via(<<"root", "chat">>)
     /\ hreq.body.kind \in {"malformed", "mistyped", "empty"})
      => (hresp.status = StatusBadRequest /\ upCalls = <<>>)

C13_Witness ==
    /\ Via(<<"root", "chat">>)
    /\ hreq.method = "POST"
    /\ hreq.body.kind = "empty"
    /\ upstream.reach = "ok"
    /\ upstream.status = StatusOK
    /\ hresp = HttpError("Invalid JSON format", StatusBadRequest)
    /\ upCalls = <<>>

\* C14: on the chat-completion path every upstream response whose status is
\* not exactly 200 (400, 404, 500, and 201 as well) is answered 502 and never
\* with a synthesized ChatResponse.
C14_Non200IsBadGateway ==
    (/\ Via(<<"root", "chat">>)
     /\ upCalls # <<>>
     /\ upstream.reach = "ok"
     /\ upstream.status # 200)
      => (hresp.status = StatusBadGateway /\ "json" \notin DOMAIN hresp.body)

C14_Witness ==
    /\ Via(<<"root", "chat">>)
    /\ upstream.reach = "ok"
    /\ upstream.status = 201
    /\ upstream.body = UB_Chat
    /\ upstream.readOK
    /\ hresp.status = StatusBadGateway

\* C15 as stated: when the upstream answers a chat-completion call with a
\* non-200 status, the 502 payload equals the upstream body, nothing added
\* or removed.
C15_Original ==
    (/\ Via(<<"root", "chat">>)
     /\ upCalls # <<>>
     /\ upstream.reach = "ok"
     /\ upstream.status # 200)
      => hresp.body = [text |-> upstream.body]

\* C15: when the upstream answers a chat-completion call with a non-200
\* status, the 502 payload is "Open-WebUI Error (<status>): ", then the
\* upstream body as far as it could be read, then a newline.
C15_Amended ==
    (/\ Via(<<"root", "chat">>)
     /\ upCalls # <<>>
     /\ upstream.reach = "ok"
     /\ upstream.status # 200)
      => /\ hresp.status = StatusBadGateway
         /\ hresp.body =
              [text |-> "Open-WebUI Error (" \o ToString(upstream.status)
                          \o "): "
                          \o (IF upstream.readOK THEN upstream.body ELSE "")
                          \o "\n"]

C15_Witness ==
    /\ Via(<<"root", "chat">>)
    /\ upstream.reach = "ok"
    /\ upstream.status = 500
    /\ upstream.body = UB_Boom
    /\ upstream.readOK
    /\ hresp.body = [text |-> "Open-WebUI Error (500): boom\n"]

\* C16: for every well-formed ChatRequest whose upstream call returns 200
\* with a parsable body, the model field of the response equals the
\* request's model field, whatever the upstream replied.
C16_ModelEchoed ==
    (/\ Via(<<"root", "chat">>)
     /\ hresp.status = StatusOK
     /\ hreq.body.kind = "object"
     /\ hreq.body.model # InvalidUTF8)
      => hresp.body.json.model = hreq.body.model

C16_Witness ==
    /\ Via(<<"root", "chat">>)
    /\ hresp.status = StatusOK
    /\ hreq.body.kind = "object"
    /\ hreq.body.model = "test-model"
    /\ upstream.body = UB_Chat
    /\ hresp.body.json.model = "test-model"

\* C17: every 200 response of the chat-completion path has object
\* "chat.completion", an id prefixed "chatcmpl-", exactly one choice with
\* index 0 and finish_reason "stop" whose message is the upstream reply's
\* message, and usage with all three token counts zero.
C17_ResponseShape ==
    (Via(<<"root", "chat">>) /\ hresp.status = StatusOK)
      => LET r == hresp.body.json
         IN  /\ r.object = "chat.completion"
             /\ \E u \in UUIDs : r.id = "chatcmpl-" \o u
             /\ Len(r.choices) = 1
             /\ r.choices[1].index = 0
             /\ r.choices[1].finish_reason = "stop"
             /\ upstream.body = UB_Chat
                  => r.choices[1].message
                       = [role |-> "assistant", content |-> "hello"]
             /\ upstream.body = UB_ModelErr
                  => r.choices[1].message = [role |-> "", content |-> ""]
             /\ r.usage = [prompt_tokens |-> 0, completion_tokens |-> 0,
                           total_tokens |-> 0]

C17_Witness ==
    /\ Via(<<"root", "chat">>)
    /\ hresp.status = StatusOK
    /\ hreq.body.kind = "object"
    /\ hreq.body.messages = <<UserHello>>
    /\ upstream.body = UB_Chat
    /\ hresp.body.json.id = "chatcmpl-9c1e"
    /\ hresp.body.json.choices[1].message.content = "hello"

\* C18: for a request whose path is exactly /v1/models the forwarder does not
\* stream the upstream body through but answers with the envelope
\* {object:"list", data:[{id, object:"model", owned_by:"open-webui"}, ...]},
\* one entry per upstream model, in order, keeping only the id.
C18_ModelsEnvelope ==
    (/\ Via(<<"root", "forward">>)
     /\ hreq.method = "GET"
     /\ hreq.path = ModelsPath
     /\ upCalls # <<>>
     /\ upstream.reach = "ok"
     /\ upstream.status = StatusOK
     /\ upstream.body = UB_Models
     /\ upstream.readOK)
      => hresp.body =
           [json |-> [object |-> "list",
                      data |-> <<[id |-> "m1", object |-> "model",
                                  owned_by |-> "open-webui"]>>]]

\* C19: on the passthrough path, whenever the upstream call returns a
\* response, the gateway's status equals the upstream status and its headers
\* and body are the upstream's, for every status (500 stays 500).
C19_PassthroughVerbatim ==
    (/\ Via(<<"root", "forward">>)
     /\ upCalls # <<>>
     /\ upstream.reach = "ok")
      => /\ hresp.status = upstream.status
         /\ hresp.headers = upstream.headers
         /\ upstream.readOK => hresp.body = [text |-> upstream.body]

C19_Witness ==
    /\ Via(<<"root", "forward">>)
    /\ hreq.method = "POST"
    /\ upstream.reach = "ok"
    /\ upstream.status = 500
    /\ upstream.body = UB_Models
    /\ upstream.readOK
    /\ hresp.status = 500
    /\ <<"Set-Cookie", "b=2">> \in hresp.headers
    /\ hresp.body = [text |-> UB_Models]

\* C20: handleHealth answers 200 with body "OK" if and only if the GET to
\* <upstream>/health completed with status exactly 200; a call that failed
\* and every other upstream status give 503.
C20_HealthIff200 ==
    Via(<<"health">>)
      => /\ (hresp.status = StatusOK /\ hresp.body = [text |-> "OK"])
              <=> (/\ upCalls = <<HealthCall(WebUIURL)>>
                   /\ upstream.reach = "ok"
                   /\ upstream.status = 200)
         /\ (upCalls # <<>> /\ ~(upstream.reach = "ok" /\ upstream.status = 200))
              => hresp.status = StatusServiceUnavailable
         /\ hresp.status = StatusOK => hresp.body = [text |-> "OK"]

C20_Witness ==
    /\ Via(<<"health">>)
    /\ hreq.method = "GET"
    /\ upstream.reach = "ok"
    /\ upstream.status = 201
    /\ upCalls = <<[method |-> "GET", url |-> "http://open-webui/health",
                    body |-> [kind |-> "none"]]>>
    /\ hresp.status = StatusServiceUnavailable

\* C21: a transport failure contacting the upstream (no response obtained) is
\* answered 502 on the chat-completion path and on the passthrough path, and
\* the answer is the gateway's own error text: no upstream status, header or
\* body is in it.
C21_TransportFailure ==
    (/\ Done
     /\ Len(route) = 2
     /\ route[2] \in {"chat", "forward"}
     /\ upCalls # <<>>
     /\ upstream.reach = "fail")
      => /\ hresp.status = StatusBadGateway
         /\ hresp.headers = {<<"Content-Type", "text/plain; charset=utf-8">>,
                             <<"X-Content-Type-Options", "nosniff">>}
         /\ hresp.body = [text |-> IF route[2] = "chat"
                                     THEN "Failed to contact Open-WebUI\n"
                                     ELSE "Failed to contact upstream service\n"]

C21_Witness ==
    /\ Via(<<"root", "forward">>)
    /\ hreq.method = "POST"
    /\ hreq.path = ModelsPath
    /\ upstream.reach = "fail"
    /\ Len(upCalls) = 1
    /\ hresp.status = StatusBadGateway

\* C22: with an empty upstream URL processServe returns an error before the
\* shutdown channel is made or a listener goroutine is started: no listener
\* is ever bound, no signal handler registered and no drain run.
C22_NoPartialStart ==
    cfg.OpenWebUIURL = ""
      => /\ pc \in {"check", "failed"}
         /\ pc = "failed" => result = "error"
         /\ pc = "check" => result = "running"
         /\ ~stopChan.made
         /\ ~notified
         /\ mainTask = "unstarted" /\ quitTask = "unstarted"
         /\ mainActive = 0 /\ QuitActive = 0
         /\ calls = [ctx |-> 0, main |-> 0, quit |-> 0]

C22_Witness ==
    /\ cfg.OpenWebUIURL = ""
    /\ pc = "failed"
    /\ result = "error"
    /\ ~stopChan.made
    /\ mainTask = "unstarted"

\* C24 as stated: once the drain deadline has expired and the controller is
\* Stopped, no request handler of either listener is still executing or able
\* to write a response.
C24_Original ==
    (State = "Stopped" /\ shutdownCtx.made /\ Expired(shutdownCtx))
      => (mainActive = 0 /\ quitPending = 0)

\* C24: the drain never terminates a request: the return of either Shutdown
\* call, at the deadline too, leaves every in-flight request as it was, so a
\* handler can still be executing when the controller is Stopped.
C24_Amended ==
    [][(pc \in {"shutdown", "drainMain", "drainQuit"} /\ pc' # pc)
         => (/\ mainActive' = mainActive
             /\ quitPending' = quitPending
             /\ quitHandled' = quitHandled)]_vars

C24_Witness ==
    /\ State = "Stopped"
    /\ mainDrain = "timeout"
    /\ Expired(shutdownCtx)
    /\ mainActive > 0
    /\ ENABLED MainRequestDone

\* C25: the control listener's drain is attempted whether the public
\* listener's drain ended cleanly or at the deadline, and processServe
\* returns nil whatever the two drain outcomes were.
C25_DrainsIndependent ==
    /\ pc \in {"drainQuit", "stopped"}
         => (mainDrain \in {"clean", "timeout"} /\ calls.quit = 1
             /\ quitSrv.inShutdown)
    /\ pc = "stopped"
         => (quitDrain \in {"clean", "timeout"} /\ result = "nil")
    /\ result = "error" => pc = "failed"

C25_Witness ==
    /\ pc = "stopped"
    /\ mainDrain = "timeout"
    /\ quitDrain = "timeout"
    /\ calls.quit = 1
    /\ result = "nil"

\* C26 as stated: a request to /quitquitquit whose method is not POST (GET,
\* for example) does not fire the shutdown signal.
C26_Original ==
    [][(Len(quitResp') > Len(quitResp) /\ quitMethod' # "POST")
         => (stopChan' = stopChan /\ closeOnce' = closeOnce)]_vars

\* C26: every request served on /quitquitquit fires the shutdown signal,
\* whatever its method: after it the one-time guard is used, the channel is
\* closed and the answer is 200.
C26_Amended ==
    [][Len(quitResp') > Len(quitResp)
         => (/\ quitMethod' \in ControlMethods
             /\ closeOnce'.done
             /\ stopChan'.closed
             /\ quitResp'[Len(quitResp')].status = StatusOK)]_vars

C26_Witness ==
    /\ quitMethod = "GET"
    /\ Len(quitResp) = 1
    /\ fired.mainErr = 0
    /\ sigSent = 0
    /\ closes = 1
    /\ stopChan.closed
    /\ State = "Draining"

\* C27: within one request the inbound body is read and translated before
\* the upstream call is sent, and on every path that makes an upstream call
\* nothing of the response (status or body) is written before that call has
\* completed.
C27_ReadCallWrite ==
    /\ [](hpc # "done" => hresp = NoResponse)
    /\ [][upCalls' # upCalls
            => (/\ hpc = "routed"
                /\ hresp' = NoResponse
                /\ route'[Len(route')] = "chat"
                     => (/\ hreq.body.kind \in {"object", "null"}
                         /\ upCalls'[1].body.json.Messages
                              = (IF hreq.body.kind = "object"
                                   THEN hreq.body.messages ELSE <<>>))
                /\ (route'[Len(route')] = "forward" /\ hreq.method = "POST")
                     => (/\ hreq.body.kind # "unreadable"
                         /\ upCalls'[1].body = hreq.body))]_vars
    /\ [][(hresp' # hresp /\ upCalls' # <<>>)
            => (hpc = "calling" /\ hpc' = "done" /\ upCalls' = upCalls)]_vars

C27_Witness ==
    /\ hpc = "calling"
    /\ route = <<"root", "chat">>
    /\ hreq.body.kind = "object"
    /\ hreq.body.messages = <<UserHello>>
    /\ Len(upCalls) = 1
    /\ upCalls[1].body.json.Messages = <<UserHello>>
    /\ upstream.reach = "ok"
    /\ hresp = NoResponse

\* C28: nothing is retried: a request causes at most one upstream call, its
\* response status is written once and never rewritten, and a handler that
\* has answered takes no further step, on every branch of
\* handleChatCompletions, forwardAndTransform and handleHealth.
C28_NoRetry ==
    /\ [](Len(upCalls) <= 1)
    /\ [](Done => (hresp.status # 0 /\ ~ENABLED HandlerNext))
    /\ [][upCalls' # upCalls => upCalls = <<>>]_vars
    /\ [][hresp' # hresp => (hresp = NoResponse /\ hresp'.status # 0)]_vars

C28_Witness ==
    /\ Via(<<"root", "chat">>)
    /\ upstream.reach = "fail"
    /\ Len(upCalls) = 1
    /\ hresp.status = StatusBadGateway

\* C29: a /healthz request whose upstream never replies eventually gets 503,
\* whereas a chat-completion or passthrough request whose upstream never
\* replies stays in its upstream call and never writes a response.
C29_OnlyHealthTimesOut ==
    /\ (hpc = "calling" /\ route = <<"health">> /\ upstream.reach = "hang")
         ~> (Done /\ hresp.status = StatusServiceUnavailable)
    /\ []((/\ upstream.reach = "hang"
           /\ Len(route) = 2
           /\ route[2] \in {"chat", "forward"}
           /\ upCalls # <<>>)
            => (hpc = "calling" /\ hresp = NoResponse
                /\ ~ENABLED HandlerNext))

C29_Witness ==
    /\ Via(<<"health">>)
    /\ upstream.reach = "hang"
    /\ Len(upCalls) = 1
    /\ hresp = HttpError("Upstream service unavailable",
                         StatusServiceUnavailable)

\* C30: on the chat-completion path an upstream response with status 200
\* whose body cannot be read or does not parse as an OpenWebUIChatResponse is
\* answered 500, and no ChatResponse is written for that request.
C30_BadUpstreamBody ==
    (/\ Via(<<"root", "chat">>)
     /\ upCalls # <<>>
     /\ upstream.reach = "ok"
     /\ upstream.status = 200
     /\ (~upstream.readOK \/ upstream.body \in {UB_Boom, UB_Models, ""}))
      => (/\ hresp.status = StatusInternalServerError
          /\ "json" \notin DOMAIN hresp.body)

C30_Witness ==
    /\ Via(<<"root", "chat">>)
    /\ upstream.reach = "ok"
    /\ upstream.status = 200
    /\ upstream.readOK
    /\ upstream.body = UB_Boom
    /\ hresp = HttpError("Invalid WebUI response format",
                         StatusInternalServerError)

\* C31 as stated: the forwarder sends the upstream the inbound method, the
\* inbound body and every inbound header value except those of Host and
\* Content-Length, for GET and for POST requests.
C31_Original ==
    (/\ Len(route) = 2
     /\ route[2] = "forward"
     /\ upCalls # <<>>
     /\ hreq.body.kind # "unreadable")
      => /\ upCalls[1].method = hreq.method
         /\ upCalls[1].headers
              = {kv \in hreq.headers : kv[1] \notin {"Host", "Content-Length"}}
         /\ IF hreq.body.kind = "empty"
              THEN upCalls[1].body.kind \in {"empty", "none"}
              ELSE upCalls[1].body = hreq.body

\* C31: the forwarder sends the upstream the inbound method and every
\* inbound header value except those of Host and Content-Length; the inbound
\* body is sent unchanged for a POST, and a GET is sent without a body
\* whatever body the inbound request carried.
C31_Amended ==
    (/\ Len(route) = 2
     /\ route[2] = "forward"
     /\ upCalls # <<>>)
      => /\ upCalls[1].method = hreq.method
         /\ upCalls[1].headers
              = {kv \in hreq.headers : kv[1] \notin {"Host", "Content-Length"}}
         /\ hreq.method = "POST" => upCalls[1].body = hreq.body
         /\ hreq.method = "GET" => upCalls[1].body = [kind |-> "none"]

C31_Witness ==
    /\ Via(<<"root", "forward">>)
    /\ hreq.method = "POST"
    /\ hreq.headers = SomeHeaders
    /\ hreq.body = HelloBody
    /\ Len(upCalls) = 1
    /\ upCalls[1].body = HelloBody
    /\ <<"Accept", "text/plain">> \in upCalls[1].headers
    /\ <<"Accept", "application/json">> \in upCalls[1].headers
    /\ <<"Content-Length", "27">> \notin upCalls[1].headers

\* C32: the passthrough target is the upstream base URL followed by the
\* inbound path with exactly one leading "/v1" removed: /v1/<rest> goes to
\* <upstream>/<rest> and a path not starting with "/v1" keeps its path.
C32_PrefixStrippedOnce ==
    (/\ Len(route) = 2
     /\ route[2] = "forward"
     /\ upCalls # <<>>)
      => /\ Len(upCalls) = 1
         /\ hreq.path = "/v1/models"
              => upCalls[1].url = "http://open-webui/models"
         /\ hreq.path = "/v1/v1/models"
              => upCalls[1].url = "http://open-webui/v1/models"
         /\ hreq.path = "/v1beta/models"
              => upCalls[1].url = "http://open-webuibeta/models"
         /\ hreq.path = "/invalid/path"
              => upCalls[1].url = "http://open-webui/invalid/path"
         /\ hreq.path = "/quitquitquit"
              => upCalls[1].url = "http://open-webui/quitquitquit"
         /\ hreq.path \in {"/v1/models", "/v1/v1/models", "/v1beta/models",
                           "/invalid/path", "/quitquitquit"}

C32_Witness ==
    /\ Via(<<"root", "forward">>)
    /\ hreq.method = "GET"
    /\ hreq.path = "/v1/v1/models"
    /\ upstream.reach = "ok"
    /\ Len(upCalls) = 1
    /\ upCalls[1].url = "http://open-webui/v1/models"

\* C33: the configuration is never written after processServe receives it:
\* no handler, listener task or lifecycle step changes its port, upstream
\* URL, control port or shutdown timeout.
C33_ConfigNeverWritten ==
    [][/\ cfg' = cfg
       /\ cfg'.Port = cfg.Port
       /\ cfg'.OpenWebUIURL = cfg.OpenWebUIURL
       /\ cfg'.QuitPort = cfg.QuitPort
       /\ cfg'.ShutdownTimeoutSec = cfg.ShutdownTimeoutSec]_vars

C33_Witness ==
    /\ pc = "stopped"
    /\ cfg = Config(WebUIURL, 0)
    /\ Len(quitResp) >= 1
    /\ shutdownCtx.made
    /\ mainRet = "ErrServerClosed"

\* C34: no request received on the public listener fires the shutdown
\* signal: serving it leaves the shutdown channel, its Once and both
\* triggers untouched, and /quitquitquit on the public port is dispatched
\* by handleRoot as an ordinary passthrough request to the upstream.
C34_PublicCannotFire ==
    /\ [](/\ ~stopChan.closed
          /\ ~closeOnce.done
          /\ closes = 0
          /\ fired = [quit |-> 0, mainErr |-> 0]
          /\ quitHandled = 0
          /\ (hreq.path = QuitPath /\ route # <<>>) => route[1] = "root"
          /\ (Done /\ hreq.path = QuitPath)
               => /\ route = <<"root", "forward">>
                  /\ cfg.OpenWebUIURL = WebUIURL
                       => /\ Len(upCalls) = 1
                          /\ upCalls[1].url = "http://open-webui/quitquitquit"
                          /\ upCalls[1].method = hreq.method)
    /\ [][UNCHANGED <<chanVars, fired, wake, pc, quitHandled, quitResp>>]_vars

C34_Witness ==
    /\ Via(<<"root", "forward">>)
    /\ hreq.path = QuitPath
    /\ hreq.method = "POST"
    /\ upstream.reach = "ok"
    /\ upstream.status = StatusOK
    /\ Len(upCalls) = 1
    /\ upCalls[1].url = "http://open-webui/quitquitquit"
    /\ hresp.status = StatusOK
    /\ ~stopChan.closed
    /\ pc = "select"

C36_DrainsSequential ==
    /\ [](/\ pc = "drainMain"
               => /\ mainSrv.inShutdown
                  /\ ~quitSrv.inShutdown
                  /\ calls.main = 1
                  /\ calls.quit = 0
                  /\ mainDrain = "none"
                  /\ quitTask = "serving" => QuitAccepting
          /\ quitSrv.inShutdown
               => /\ mainDrain \in {"clean", "timeout"}
                  /\ calls.main = 1
                  /\ calls.quit = 1
                  /\ pc \in {"drainQuit", "stopped"}
          /\ quitDrain # "none" => mainDrain # "none")
    /\ [][(pc = "drainMain" /\ QuitAccepting /\ ~QuitAccepting')
             => (pc' = "drainQuit" \/ quitRet' = "fatal")]_vars

C36_Witness ==
    /\ pc = "drainMain"
    /\ wake = "os"
    /\ mainActive > 0
    /\ now >= 1
    /\ ~Expired(pollCtx)
    /\ QuitAccepting
    /\ Len(quitResp) = 1
    /\ ENABLED QuitAccept

\* C37: a /quitquitquit call served once Draining has begun returns 200,
\* closes the shutdown channel at most once, and has no other effect: no
\* second drain starts, the deadline is neither restarted nor extended, the
\* drain's position is unchanged, and no task waits on the channel.
C37_LateQuitHarmless ==
    /\ [][(/\ Len(quitResp') > Len(quitResp)
           /\ pc \in {"shutdown", "drainMain", "drainQuit", "stopped"})
            => /\ quitResp'[Len(quitResp')] = [status |-> StatusOK, body |-> QuitBody]
               /\ closes' <= 1
               /\ closes' = IF closeOnce.done THEN closes ELSE closes + 1
               /\ stopChan'.closed
               /\ ~panicked'
               /\ UNCHANGED <<pc, wake, shutdownCtx, pollCtx, now, calls,
                              mainDrain, quitDrain, result, mainSrv, quitSrv,
                              mainVars, quitVars, mainActive>>]_vars
    /\ [](/\ calls.ctx <= 1
          /\ calls.main <= 1
          /\ calls.quit <= 1
          /\ closes <= 1
          /\ ~panicked)

C37_Witness ==
    /\ wake = "os"
    /\ pc = "drainMain"
    /\ now >= 1
    /\ quitHandled = 1
    /\ Len(quitResp) = 1
    /\ quitResp[1].status = StatusOK
    /\ closes = 1
    /\ fired = [quit |-> 1, mainErr |-> 0]
    /\ calls = [ctx |-> 1, main |-> 1, quit |-> 0]

\* C38: processServe returns nil in every execution that passes the
\* configuration check, the one woken by a fatal error of the public
\* listener included; its only error return is the missing upstream URL.
C38_OnlyConfigError ==
    /\ result = "error" <=> pc = "failed"
    /\ pc = "failed" => cfg.OpenWebUIURL = ""
    /\ cfg.OpenWebUIURL = "" => pc \in {"check", "failed"}
    /\ pc = "stopped" => result = "nil"
    /\ result \in {"running", "nil", "error"}
    /\ (result = "nil") <=> (pc = "stopped")
    /\ (mainRet = "fatal" \/ quitRet = "fatal") => result # "error"

C38_Witness ==
    /\ pc = "stopped"
    /\ result = "nil"
    /\ wake = "internal"
    /\ mainRet = "fatal"
    /\ mainTask = "done"
    /\ fired = [quit |-> 0, mainErr |-> 1]
    /\ cfg.OpenWebUIURL = WebUIURL

\* C39: the payload POSTed to <upstream>/chat holds only the request's model
\* and messages (role and content of each, in the inbound order): any other
\* key of the inbound object is dropped, and an object lacking model or
\* messages is not rejected but sent with an empty model / no messages.
C39_ChatPayload ==
    /\ (/\ Via(<<"root", "chat">>)
        /\ hreq.body.kind = "object"
        /\ cfg.OpenWebUIURL = WebUIURL)
         => /\ Len(upCalls) = 1
            /\ hresp.status # StatusBadRequest
    /\ (/\ Len(route) = 2
        /\ route[2] = "chat"
        /\ upCalls # <<>>)
         => /\ Len(upCalls) = 1
            /\ upCalls[1].method = "POST"
            /\ upCalls[1].url = "http://open-webui/chat"
            /\ DOMAIN upCalls[1].body = {"json"}
            /\ DOMAIN upCalls[1].body.json = {"Model", "Messages"}
            /\ hreq.body.kind = "object"
                 => /\ upCalls[1].body.json.Messages =
                         IF "messages" \in hreq.body.has
                           THEN hreq.body.messages ELSE <<>>
                    /\ upCalls[1].body.json.Model =
                         IF "model" \notin hreq.body.has THEN ""
                         ELSE IF hreq.body.model = InvalidUTF8 THEN ReplacedUTF8
                         ELSE hreq.body.model
            /\ hreq.body.kind # "object"
                 => upCalls[1].body.json = [Model |-> "", Messages |-> <<>>]
            /\ \A i \in 1..Len(upCalls[1].body.json.Messages) :
                 DOMAIN upCalls[1].body.json.Messages[i] = {"role", "content"}

C39_Witness ==
    /\ Via(<<"root", "chat">>)
    /\ hreq.body.kind = "object"
    /\ hreq.body.extra
    /\ hreq.body.has = {"messages"}
    /\ Len(upCalls) = 1
    /\ upCalls[1].body =
         [json |-> [Model |-> "", Messages |-> <<SystemBrief, UserHello>>]]
    /\ upstream.reach = "ok"
    /\ hresp.status = StatusOK

\* C40: the passthrough target URL is built from the inbound path only: the
\* inbound query string is no part of the upstream request, so requests that
\* differ only in their query string produce the same upstream request.
C40_QueryDropped ==
    (/\ Len(route) = 2
     /\ route[2] = "forward"
     /\ upCalls # <<>>)
      => /\ Len(upCalls) = 1
         /\ \A q \in Queries :
              upCalls[1] = ForwardCall([hreq EXCEPT !.query = q],
                                       cfg.OpenWebUIURL)
         /\ upCalls[1].url \in {"http://open-webui/models",
                                "http://open-webui/v1/models",
                                "http://open-webuibeta/models",
                                "http://open-webui/invalid/path",
                                "http://open-webui/quitquitquit"}
         /\ DOMAIN upCalls[1] = {"method", "url", "headers", "body"}

C40_Witness ==
    /\ Via(<<"root", "forward">>)
    /\ hreq.method = "GET"
    /\ hreq.path = ModelsPath
    /\ hreq.query = "limit=5"
    /\ upstream.reach = "ok"
    /\ Len(upCalls) = 1
    /\ upCalls[1].url = "http://open-webui/models"

====
